---- MODULE Spec2Model ----
(***************************************************************************)
(* Model of miri_lrs_extract_L3.py: the command-line driver that parses    *)
(* --s2dfile / --parfile / --save_plot, configures an Extract1dStep, runs  *)
(* it once and, when asked, plots WAVELENGTH against FLUX of the first     *)
(* spectrum and saves the figure under a name derived from the product's   *)
(* file name.                                                              *)
(*                                                                         *)
(* Python strings (command-line strings, file names) are sequences of      *)
(* one-character strings, so that argparse and str.replace are computed    *)
(* on their characters.  Python's None/True/False are the one-element      *)
(* sequences <<"None">>/<<"True">>/<<"False">>, which no string equals.    *)
(* A character outside ASCII is the string that names its code point,      *)
(* "U+0661".  parse_args follows argparse of CPython 3.11.                 *)
(***************************************************************************)
EXTENDS Integers, Sequences, FiniteSets, TLC

VARIABLES pc, argv, args, params, x1d, sp3, outfile,
          calls, runs, plots, figure, images, saved, err

vars == <<pc, argv, args, params, x1d, sp3, outfile,
          calls, runs, plots, figure, images, saved, err>>

\* ------------------------------------------------------------------ bounds
MaxArgs == 4
MaxSpec == 2

\* --------------------------------------------------------------- constants
\* Python's None, True and False; no character sequence equals them.
None == <<"None">>
PyTrue == <<"True">>
PyFalse == <<"False">>

\* What a call that returned normally leaves in the log of calls.
NoExc == "no exception"

\* Python's empty list [].
EmptyList == <<"[]">>

DefaultParfile == <<"m","i","r","i","_","l","r","s","_","d","e","m","o","_","e","x","t","r","a","c","t","1","d",".","j","s","o","n">>
OutputDir == <<".","/">>

Suffix == <<"_","e","x","t","r","a","c","t","1","d","s","t","e","p",".","f","i","t","s">>
Png == <<".","p","n","g">>

\* The option strings of the parser: -h/--help that ArgumentParser adds,
\* and the three the script adds.
OptH == <<"-","h">>
OptHelp == <<"-","-","h","e","l","p">>
OptS2dfile == <<"-","-","s","2","d","f","i","l","e">>
OptParfile == <<"-","-","p","a","r","f","i","l","e">>
OptSavePlot == <<"-","-","s","a","v","e","_","p","l","o","t">>
OptionStrings == {OptH, OptHelp, OptS2dfile, OptParfile, OptSavePlot}

ActionOf(o) ==
    IF o \in {OptH, OptHelp} THEN "help"
    ELSE IF o = OptS2dfile THEN "s2dfile"
    ELSE IF o = OptParfile THEN "parfile"
    ELSE "save_plot"

\* -------------------------------------------------------------- the inputs
\* The strings a command line is built from: the three options in full, an
\* unambiguous and an ambiguous abbreviation, the --opt=value form, --help,
\* the -- separator, and values: a file name, the string 'None', '--' given
\* with '=', a string that starts with '-', a negative number, and a
\* negative number in a non-ASCII digit with a newline after it.
Tokens ==
    { OptS2dfile, OptParfile, OptSavePlot, OptHelp,
      <<"-","-","s","2","d">>,
      <<"-","-","s">>,
      <<"-","-","p","a","r","=","c","u","s","t","o","m",".","j","s","o","n">>,
      <<"-","-">>,
      <<"a","_","s","2","d",".","f","i","t","s">>,
      <<"N","o","n","e">>,
      <<"-","-","s","2","d","f","i","l","e","=","-","-">>,
      <<"-","x">>,
      <<"-","1">>,
      <<"-","U+0661","\n">> }

CommandLines == UNION {[1..n -> Tokens] : n \in 0..MaxArgs}

\* The file names the extraction product carries in meta.filename: run
\* standalone with save_results set, the step saves its result as
\* <root>_extract1dstep.fits and the product carries that name.  The roots
\* include one that contains the suffix itself and one that ends in '.png'.
Roots ==
    { <<"a">>,
      <<"a">> \o Suffix,
      <<"b",".","p","n","g">>,
      <<"j","w","_","x","1","d">> }

Filenames == {root \o Suffix : root \in Roots}

RunErrors == {"FileNotFoundError", "Extract1dError"}

\* ------------------------------------------------------------- str.replace
StartsWithAt(s, i, old) ==
    /\ i + Len(old) - 1 <= Len(s)
    /\ \A k \in 1..Len(old) : s[i + k - 1] = old[k]

EndsWith(s, t) ==
    /\ Len(t) <= Len(s)
    /\ \A k \in 1..Len(t) : s[Len(s) - Len(t) + k] = t[k]

RECURSIVE ReplaceFrom(_, _, _, _)
ReplaceFrom(s, i, old, new) ==
    IF i > Len(s) THEN <<>>
    ELSE IF StartsWithAt(s, i, old)
         THEN new \o ReplaceFrom(s, i + Len(old), old, new)
         ELSE <<s[i]>> \o ReplaceFrom(s, i + 1, old, new)

ReplaceFirst(s, old, new) ==
    IF \E i \in 1..Len(s) : StartsWithAt(s, i, old)
    THEN LET first == CHOOSE i \in 1..Len(s) :
                         /\ StartsWithAt(s, i, old)
                         /\ \A j \in 1..(i - 1) : ~StartsWithAt(s, j, old)
         IN  SubSeq(s, 1, first - 1) \o new
                \o SubSeq(s, first + Len(old), Len(s))
    ELSE s

\* s.replace(old, new) for a non-empty old: every non-overlapping
\* occurrence, scanning from the left.
Replace(s, old, new) == ReplaceFrom(s, 1, old, new)

\* ---------------------------------------------------------------- argparse
StartsWith(s, p) == StartsWithAt(s, 1, p)
HasChar(s, c) == \E k \in DOMAIN s : s[k] = c
FirstIndex(s, c) == CHOOSE k \in DOMAIN s : s[k] = c /\ \A j \in 1..(k - 1) : s[j] # c
\* s.split(c, 1) of a string that contains c.
SplitHead(s, c) == SubSeq(s, 1, FirstIndex(s, c) - 1)
SplitTail(s, c) == SubSeq(s, FirstIndex(s, c) + 1, Len(s))

\* The decimal digits (category Nd, Unicode 14.0) outside ASCII, each named
\* by its code point.
NonAsciiDigits ==
    {
      "U+0660", "U+0661", "U+0662", "U+0663", "U+0664", "U+0665", "U+0666", "U+0667", "U+0668", "U+0669",
      "U+06F0", "U+06F1", "U+06F2", "U+06F3", "U+06F4", "U+06F5", "U+06F6", "U+06F7", "U+06F8", "U+06F9",
      "U+07C0", "U+07C1", "U+07C2", "U+07C3", "U+07C4", "U+07C5", "U+07C6", "U+07C7", "U+07C8", "U+07C9",
      "U+0966", "U+0967", "U+0968", "U+0969", "U+096A", "U+096B", "U+096C", "U+096D", "U+096E", "U+096F",
      "U+09E6", "U+09E7", "U+09E8", "U+09E9", "U+09EA", "U+09EB", "U+09EC", "U+09ED", "U+09EE", "U+09EF",
      "U+0A66", "U+0A67", "U+0A68", "U+0A69", "U+0A6A", "U+0A6B", "U+0A6C", "U+0A6D", "U+0A6E", "U+0A6F",
      "U+0AE6", "U+0AE7", "U+0AE8", "U+0AE9", "U+0AEA", "U+0AEB", "U+0AEC", "U+0AED", "U+0AEE", "U+0AEF",
      "U+0B66", "U+0B67", "U+0B68", "U+0B69", "U+0B6A", "U+0B6B", "U+0B6C", "U+0B6D", "U+0B6E", "U+0B6F",
      "U+0BE6", "U+0BE7", "U+0BE8", "U+0BE9", "U+0BEA", "U+0BEB", "U+0BEC", "U+0BED", "U+0BEE", "U+0BEF",
      "U+0C66", "U+0C67", "U+0C68", "U+0C69", "U+0C6A", "U+0C6B", "U+0C6C", "U+0C6D", "U+0C6E", "U+0C6F",
      "U+0CE6", "U+0CE7", "U+0CE8", "U+0CE9", "U+0CEA", "U+0CEB", "U+0CEC", "U+0CED", "U+0CEE", "U+0CEF",
      "U+0D66", "U+0D67", "U+0D68", "U+0D69", "U+0D6A", "U+0D6B", "U+0D6C", "U+0D6D", "U+0D6E", "U+0D6F",
      "U+0DE6", "U+0DE7", "U+0DE8", "U+0DE9", "U+0DEA", "U+0DEB", "U+0DEC", "U+0DED", "U+0DEE", "U+0DEF",
      "U+0E50", "U+0E51", "U+0E52", "U+0E53", "U+0E54", "U+0E55", "U+0E56", "U+0E57", "U+0E58", "U+0E59",
      "U+0ED0", "U+0ED1", "U+0ED2", "U+0ED3", "U+0ED4", "U+0ED5", "U+0ED6", "U+0ED7", "U+0ED8", "U+0ED9",
      "U+0F20", "U+0F21", "U+0F22", "U+0F23", "U+0F24", "U+0F25", "U+0F26", "U+0F27", "U+0F28", "U+0F29",
      "U+1040", "U+1041", "U+1042", "U+1043", "U+1044", "U+1045", "U+1046", "U+1047", "U+1048", "U+1049",
      "U+1090", "U+1091", "U+1092", "U+1093", "U+1094", "U+1095", "U+1096", "U+1097", "U+1098", "U+1099",
      "U+17E0", "U+17E1", "U+17E2", "U+17E3", "U+17E4", "U+17E5", "U+17E6", "U+17E7", "U+17E8", "U+17E9",
      "U+1810", "U+1811", "U+1812", "U+1813", "U+1814", "U+1815", "U+1816", "U+1817", "U+1818", "U+1819",
      "U+1946", "U+1947", "U+1948", "U+1949", "U+194A", "U+194B", "U+194C", "U+194D", "U+194E", "U+194F",
      "U+19D0", "U+19D1", "U+19D2", "U+19D3", "U+19D4", "U+19D5", "U+19D6", "U+19D7", "U+19D8", "U+19D9",
      "U+1A80", "U+1A81", "U+1A82", "U+1A83", "U+1A84", "U+1A85", "U+1A86", "U+1A87", "U+1A88", "U+1A89",
      "U+1A90", "U+1A91", "U+1A92", "U+1A93", "U+1A94", "U+1A95", "U+1A96", "U+1A97", "U+1A98", "U+1A99",
      "U+1B50", "U+1B51", "U+1B52", "U+1B53", "U+1B54", "U+1B55", "U+1B56", "U+1B57", "U+1B58", "U+1B59",
      "U+1BB0", "U+1BB1", "U+1BB2", "U+1BB3", "U+1BB4", "U+1BB5", "U+1BB6", "U+1BB7", "U+1BB8", "U+1BB9",
      "U+1C40", "U+1C41", "U+1C42", "U+1C43", "U+1C44", "U+1C45", "U+1C46", "U+1C47", "U+1C48", "U+1C49",
      "U+1C50", "U+1C51", "U+1C52", "U+1C53", "U+1C54", "U+1C55", "U+1C56", "U+1C57", "U+1C58", "U+1C59",
      "U+A620", "U+A621", "U+A622", "U+A623", "U+A624", "U+A625", "U+A626", "U+A627", "U+A628", "U+A629",
      "U+A8D0", "U+A8D1", "U+A8D2", "U+A8D3", "U+A8D4", "U+A8D5", "U+A8D6", "U+A8D7", "U+A8D8", "U+A8D9",
      "U+A900", "U+A901", "U+A902", "U+A903", "U+A904", "U+A905", "U+A906", "U+A907", "U+A908", "U+A909",
      "U+A9D0", "U+A9D1", "U+A9D2", "U+A9D3", "U+A9D4", "U+A9D5", "U+A9D6", "U+A9D7", "U+A9D8", "U+A9D9",
      "U+A9F0", "U+A9F1", "U+A9F2", "U+A9F3", "U+A9F4", "U+A9F5", "U+A9F6", "U+A9F7", "U+A9F8", "U+A9F9",
      "U+AA50", "U+AA51", "U+AA52", "U+AA53", "U+AA54", "U+AA55", "U+AA56", "U+AA57", "U+AA58", "U+AA59",
      "U+ABF0", "U+ABF1", "U+ABF2", "U+ABF3", "U+ABF4", "U+ABF5", "U+ABF6", "U+ABF7", "U+ABF8", "U+ABF9",
      "U+FF10", "U+FF11", "U+FF12", "U+FF13", "U+FF14", "U+FF15", "U+FF16", "U+FF17", "U+FF18", "U+FF19",
      "U+104A0", "U+104A1", "U+104A2", "U+104A3", "U+104A4", "U+104A5", "U+104A6", "U+104A7", "U+104A8", "U+104A9",
      "U+10D30", "U+10D31", "U+10D32", "U+10D33", "U+10D34", "U+10D35", "U+10D36", "U+10D37", "U+10D38", "U+10D39",
      "U+11066", "U+11067", "U+11068", "U+11069", "U+1106A", "U+1106B", "U+1106C", "U+1106D", "U+1106E", "U+1106F",
      "U+110F0", "U+110F1", "U+110F2", "U+110F3", "U+110F4", "U+110F5", "U+110F6", "U+110F7", "U+110F8", "U+110F9",
      "U+11136", "U+11137", "U+11138", "U+11139", "U+1113A", "U+1113B", "U+1113C", "U+1113D", "U+1113E", "U+1113F",
      "U+111D0", "U+111D1", "U+111D2", "U+111D3", "U+111D4", "U+111D5", "U+111D6", "U+111D7", "U+111D8", "U+111D9",
      "U+112F0", "U+112F1", "U+112F2", "U+112F3", "U+112F4", "U+112F5", "U+112F6", "U+112F7", "U+112F8", "U+112F9",
      "U+11450", "U+11451", "U+11452", "U+11453", "U+11454", "U+11455", "U+11456", "U+11457", "U+11458", "U+11459",
      "U+114D0", "U+114D1", "U+114D2", "U+114D3", "U+114D4", "U+114D5", "U+114D6", "U+114D7", "U+114D8", "U+114D9",
      "U+11650", "U+11651", "U+11652", "U+11653", "U+11654", "U+11655", "U+11656", "U+11657", "U+11658", "U+11659",
      "U+116C0", "U+116C1", "U+116C2", "U+116C3", "U+116C4", "U+116C5", "U+116C6", "U+116C7", "U+116C8", "U+116C9",
      "U+11730", "U+11731", "U+11732", "U+11733", "U+11734", "U+11735", "U+11736", "U+11737", "U+11738", "U+11739",
      "U+118E0", "U+118E1", "U+118E2", "U+118E3", "U+118E4", "U+118E5", "U+118E6", "U+118E7", "U+118E8", "U+118E9",
      "U+11950", "U+11951", "U+11952", "U+11953", "U+11954", "U+11955", "U+11956", "U+11957", "U+11958", "U+11959",
      "U+11C50", "U+11C51", "U+11C52", "U+11C53", "U+11C54", "U+11C55", "U+11C56", "U+11C57", "U+11C58", "U+11C59",
      "U+11D50", "U+11D51", "U+11D52", "U+11D53", "U+11D54", "U+11D55", "U+11D56", "U+11D57", "U+11D58", "U+11D59",
      "U+11DA0", "U+11DA1", "U+11DA2", "U+11DA3", "U+11DA4", "U+11DA5", "U+11DA6", "U+11DA7", "U+11DA8", "U+11DA9",
      "U+16A60", "U+16A61", "U+16A62", "U+16A63", "U+16A64", "U+16A65", "U+16A66", "U+16A67", "U+16A68", "U+16A69",
      "U+16AC0", "U+16AC1", "U+16AC2", "U+16AC3", "U+16AC4", "U+16AC5", "U+16AC6", "U+16AC7", "U+16AC8", "U+16AC9",
      "U+16B50", "U+16B51", "U+16B52", "U+16B53", "U+16B54", "U+16B55", "U+16B56", "U+16B57", "U+16B58", "U+16B59",
      "U+1D7CE", "U+1D7CF", "U+1D7D0", "U+1D7D1", "U+1D7D2", "U+1D7D3", "U+1D7D4", "U+1D7D5", "U+1D7D6", "U+1D7D7",
      "U+1D7D8", "U+1D7D9", "U+1D7DA", "U+1D7DB", "U+1D7DC", "U+1D7DD", "U+1D7DE", "U+1D7DF", "U+1D7E0", "U+1D7E1",
      "U+1D7E2", "U+1D7E3", "U+1D7E4", "U+1D7E5", "U+1D7E6", "U+1D7E7", "U+1D7E8", "U+1D7E9", "U+1D7EA", "U+1D7EB",
      "U+1D7EC", "U+1D7ED", "U+1D7EE", "U+1D7EF", "U+1D7F0", "U+1D7F1", "U+1D7F2", "U+1D7F3", "U+1D7F4", "U+1D7F5",
      "U+1D7F6", "U+1D7F7", "U+1D7F8", "U+1D7F9", "U+1D7FA", "U+1D7FB", "U+1D7FC", "U+1D7FD", "U+1D7FE", "U+1D7FF",
      "U+1E140", "U+1E141", "U+1E142", "U+1E143", "U+1E144", "U+1E145", "U+1E146", "U+1E147", "U+1E148", "U+1E149",
      "U+1E2F0", "U+1E2F1", "U+1E2F2", "U+1E2F3", "U+1E2F4", "U+1E2F5", "U+1E2F6", "U+1E2F7", "U+1E2F8", "U+1E2F9",
      "U+1E950", "U+1E951", "U+1E952", "U+1E953", "U+1E954", "U+1E955", "U+1E956", "U+1E957", "U+1E958", "U+1E959",
      "U+1FBF0", "U+1FBF1", "U+1FBF2", "U+1FBF3", "U+1FBF4", "U+1FBF5", "U+1FBF6", "U+1FBF7", "U+1FBF8", "U+1FBF9" }

\* What \d of a str pattern matches: every Unicode decimal digit.
Digits == {"0","1","2","3","4","5","6","7","8","9"} \cup NonAsciiDigits
AllDigits(s) == \A k \in DOMAIN s : s[k] \in Digits

\* '^-\d+$|^-\d*\.\d+$' up to the end of the string.
NegativeNumberToEnd(s) ==
    /\ Len(s) >= 2
    /\ s[1] = "-"
    /\ LET r == Tail(s)
       IN  \/ AllDigits(r)
           \/ /\ HasChar(r, ".")
              /\ AllDigits(SplitHead(r, "."))
              /\ SplitTail(r, ".") # <<>>
              /\ AllDigits(SplitTail(r, "."))

\* _negative_number_matcher.match: '$' also matches just before a newline
\* that ends the string.
IsNegativeNumber(s) ==
    \/ NegativeNumberToEnd(s)
    \/ /\ Len(s) >= 1
       /\ s[Len(s)] = "\n"
       /\ NegativeNumberToEnd(SubSeq(s, 1, Len(s) - 1))

\* _get_option_tuples: the option strings an abbreviated argument can mean,
\* each with the explicit argument it would carry.
get_option_tuples(arg) ==
    IF arg[2] = "-"
    THEN LET prefix == IF HasChar(arg, "=") THEN SplitHead(arg, "=") ELSE arg
             explicit == IF HasChar(arg, "=") THEN SplitTail(arg, "=") ELSE None
         IN  { [option |-> o, explicit |-> explicit] :
                   o \in {q \in OptionStrings : StartsWith(q, prefix)} }
    ELSE { [option |-> o, explicit |-> SubSeq(arg, 3, Len(arg))] :
               o \in {q \in OptionStrings : q = SubSeq(arg, 1, 2)} }
         \cup
         { [option |-> o, explicit |-> None] :
               o \in {q \in OptionStrings :
                         q # SubSeq(arg, 1, 2) /\ StartsWith(q, arg)} }

Positional == [kind |-> "A", action |-> "none", option |-> <<>>, explicit |-> None]
Unknown == [kind |-> "O", action |-> "unknown", option |-> <<>>, explicit |-> None]
Ambiguous == [kind |-> "error", action |-> "none", option |-> <<>>, explicit |-> None]
Optional(o, e) == [kind |-> "O", action |-> ActionOf(o), option |-> o, explicit |-> e]

\* _parse_optional: what one argument string is taken for.
parse_optional(arg) ==
    IF arg = <<>> THEN Positional
    ELSE IF arg[1] # "-" THEN Positional
    ELSE IF arg \in OptionStrings THEN Optional(arg, None)
    ELSE IF Len(arg) = 1 THEN Positional
    ELSE IF HasChar(arg, "=") /\ SplitHead(arg, "=") \in OptionStrings
         THEN Optional(SplitHead(arg, "="), SplitTail(arg, "="))
    ELSE LET tuples == get_option_tuples(arg)
         IN  IF Cardinality(tuples) > 1 THEN Ambiguous
             ELSE IF Cardinality(tuples) = 1
                  THEN LET t == CHOOSE t \in tuples : TRUE
                       IN  Optional(t.option, t.explicit)
             ELSE IF IsNegativeNumber(arg) THEN Positional
             ELSE IF HasChar(arg, " ") THEN Positional
             ELSE Unknown

\* Every string from the first '--' on is an argument, never an option.
BeforeSeparator(av, i) == \A j \in 1..i : av[j] # <<"-","-">>
Classify(av, i) ==
    IF BeforeSeparator(av, i) THEN parse_optional(av[i]) ELSE Positional
\* arg_strings_pattern: 'O', 'A', or '-' for the first '--'.
Pattern(av, i) ==
    IF BeforeSeparator(av, i) THEN parse_optional(av[i]).kind
    ELSE IF i = 1 \/ BeforeSeparator(av, i - 1) THEN "-"
    ELSE "A"

NoArgs == [s2dfile |-> None, parfile |-> DefaultParfile, save_plot |-> FALSE,
           extras |-> FALSE, error |-> FALSE, help |-> FALSE]

\* _get_values for an option that takes one argument: a '--' is removed
\* from the argument strings first, and none left gives the empty list.
get_values(arg) == IF arg = <<"-","-">> THEN EmptyList ELSE arg

Store(acc, action, arg) ==
    IF action = "s2dfile" THEN [acc EXCEPT !.s2dfile = get_values(arg)]
    ELSE [acc EXCEPT !.parfile = get_values(arg)]

\* The loop of _parse_known_args from argument i on: strings that are not
\* options and unknown options are extras, an option takes its action at
\* once (help exits), and an option that needs a value takes its explicit
\* argument or the next string when that is an argument.
RECURSIVE ParseFrom(_, _, _)
ParseFrom(av, i, acc) ==
    IF i > Len(av) THEN acc
    ELSE LET c == Classify(av, i)
         IN  IF c.kind # "O" \/ c.action = "unknown"
             THEN ParseFrom(av, i + 1, [acc EXCEPT !.extras = TRUE])
             ELSE IF c.action \in {"s2dfile", "parfile"}
             THEN IF c.explicit # None
                  THEN ParseFrom(av, i + 1, Store(acc, c.action, c.explicit))
                  ELSE IF i + 1 <= Len(av) /\ Pattern(av, i + 1) = "A"
                       THEN ParseFrom(av, i + 2, Store(acc, c.action, av[i + 1]))
                       ELSE [acc EXCEPT !.error = TRUE]
             ELSE IF c.explicit # None
             THEN IF /\ c.option = OptH
                     /\ c.explicit # <<>>
                     /\ \A k \in DOMAIN c.explicit : c.explicit[k] = "h"
                  THEN [acc EXCEPT !.help = TRUE]
                  ELSE [acc EXCEPT !.error = TRUE]
             ELSE IF c.action = "help"
             THEN [acc EXCEPT !.help = TRUE]
             ELSE ParseFrom(av, i + 1, [acc EXCEPT !.save_plot = TRUE])

HasAmbiguous(av) == \E i \in DOMAIN av : Classify(av, i).kind = "error"

parse_args_s2dfile_optional(av) ==
    IF HasAmbiguous(av) THEN [NoArgs EXCEPT !.error = TRUE]
    ELSE LET r == ParseFrom(av, 1, NoArgs)
         IN  IF ~r.error /\ ~r.help /\ r.extras
             THEN [r EXCEPT !.error = TRUE]
             ELSE r

\* parser.parse_args(): an ambiguous abbreviation is an error before any
\* option acts; --s2dfile is required; strings left over are an error.
parse_args(av) ==
    IF HasAmbiguous(av) THEN [NoArgs EXCEPT !.error = TRUE]
    ELSE LET r == ParseFrom(av, 1, NoArgs)
         IN  IF ~r.error /\ ~r.help /\ (r.s2dfile = None \/ r.extras)
             THEN [r EXCEPT !.error = TRUE]
             ELSE r

\* ------------------------------------------------------------ initial state
NoStep == [created |-> FALSE, save_results |-> PyFalse, output_dir |-> None,
           override_extract1d |-> None, use_source_posn |-> None]
NoResult == [returned |-> FALSE, filename |-> <<>>, spec |-> <<>>]
NoFigure == [created |-> FALSE, figsize |-> <<>>, title |-> <<>>,
             xlabel |-> "", ylabel |-> ""]
NoParams == [s2dfile |-> None, parfile |-> None, plot |-> FALSE]
NoErr == [stage |-> NoExc, exc |-> NoExc]

Init ==
    /\ pc = "parse_args"
    /\ argv \in CommandLines
    /\ args = NoArgs
    /\ params = NoParams
    /\ x1d = NoStep
    /\ sp3 = NoResult
    /\ outfile = <<>>
    /\ calls = <<>>
    /\ runs = <<>>
    /\ plots = <<>>
    /\ figure = NoFigure
    /\ images = <<>>
    /\ saved = <<>>
    /\ err = NoErr

\* One entry of the log of calls the script makes into its libraries: the
\* name called (or the attribute assigned) and what the call raised.
Called(op, raised) == calls' = Append(calls, [op |-> op, raised |-> raised])

Raise(stage, exc) ==
    /\ pc' = "raised"
    /\ err' = [stage |-> stage, exc |-> exc]

\* ------------------------------------------------------------ __main__
ParseArgs ==
    /\ pc = "parse_args"
    /\ LET r == parse_args(argv)
       IN  IF r.error
           THEN /\ Raise("parse_args", "SystemExit(2)")
                /\ UNCHANGED args
           ELSE IF r.help
           THEN /\ Raise("parse_args", "SystemExit(0)")
                /\ UNCHANGED args
           ELSE /\ args' = r
                /\ pc' = "call"
                /\ UNCHANGED err
    /\ UNCHANGED <<argv, params, x1d, sp3, outfile, calls, runs, plots,
                   figure, images, saved>>

CallExtractSpectrum ==
    /\ pc = "call"
    /\ params' = [s2dfile |-> args.s2dfile, parfile |-> args.parfile,
                  plot |-> args.save_plot]
    /\ Called("extract_spectrum", NoExc)
    /\ pc' = "L14"
    /\ UNCHANGED <<argv, args, x1d, sp3, outfile, runs, plots, figure,
                   images, saved, err>>

\* ------------------------------------------------------ extract_spectrum
NewStep ==
    /\ pc = "L14"
    /\ x1d' = [NoStep EXCEPT !.created = TRUE]
    /\ Called("Extract1dStep", NoExc)
    /\ pc' = "L15"
    /\ UNCHANGED <<argv, args, params, sp3, outfile, runs, plots, figure,
                   images, saved, err>>

SetSaveResultsFalse ==
    /\ pc = "L15"
    /\ x1d' = [x1d EXCEPT !.save_results = PyFalse]
    /\ Called("save_results", NoExc)
    /\ pc' = "L16"
    /\ UNCHANGED <<argv, args, params, sp3, outfile, runs, plots, figure,
                   images, saved, err>>

SetSaveResults ==
    /\ pc = "L15"
    /\ x1d' = [x1d EXCEPT !.save_results = PyTrue]
    /\ Called("save_results", NoExc)
    /\ pc' = "L16"
    /\ UNCHANGED <<argv, args, params, sp3, outfile, runs, plots, figure,
                   images, saved, err>>

SetOutputDir ==
    /\ pc = "L16"
    /\ x1d' = [x1d EXCEPT !.output_dir = OutputDir]
    /\ Called("output_dir", NoExc)
    /\ pc' = "L17"
    /\ UNCHANGED <<argv, args, params, sp3, outfile, runs, plots, figure,
                   images, saved, err>>

SetOverrideDefault ==
    /\ pc = "L17"
    /\ x1d' = [x1d EXCEPT !.override_extract1d = DefaultParfile]
    /\ Called("override_extract1d", NoExc)
    /\ pc' = "L18"
    /\ UNCHANGED <<argv, args, params, sp3, outfile, runs, plots, figure,
                   images, saved, err>>

SetOverride ==
    /\ pc = "L17"
    /\ x1d' = [x1d EXCEPT !.override_extract1d = params.parfile]
    /\ Called("override_extract1d", NoExc)
    /\ pc' = "L18"
    /\ UNCHANGED <<argv, args, params, sp3, outfile, runs, plots, figure,
                   images, saved, err>>

SkipUseSourcePosn ==
    /\ pc = "L18"
    /\ pc' = "L21"
    /\ UNCHANGED <<argv, args, params, x1d, sp3, outfile, calls, runs, plots,
                   figure, images, saved, err>>

SetUseSourcePosn ==
    /\ pc = "L18"
    /\ x1d' = [x1d EXCEPT !.use_source_posn = PyFalse]
    /\ Called("use_source_posn", NoExc)
    /\ pc' = "L21"
    /\ UNCHANGED <<argv, args, params, sp3, outfile, runs, plots, figure,
                   images, saved, err>>

\* The spectral product x1d.run returns: n spectra, each with a spec_table
\* whose columns are identified by <<index of the spectrum, column name>>.
SpecTable(i) == [WAVELENGTH |-> <<i, "WAVELENGTH">>,
                 FLUX |-> <<i, "FLUX">>,
                 FLUX_ERROR |-> <<i, "FLUX_ERROR">>]

Product(fn, n) == [returned |-> TRUE, filename |-> fn,
                   spec |-> [i \in 1..n |-> SpecTable(i - 1)]]

\* The step writes its result when save_results is set, under output_dir.
SaveProduct(fn) ==
    IF x1d.save_results = PyTrue
    THEN Append(saved, [dir |-> x1d.output_dir, filename |-> fn])
    ELSE saved

RunCalled(raised) ==
    /\ Called("run", raised)
    /\ runs' = Append(runs, [input |-> params.s2dfile, config |-> x1d])

RunSwallow ==
    /\ pc = "L21"
    /\ \/ \E fn \in Filenames, n \in 0..MaxSpec :
             /\ RunCalled(NoExc)
             /\ sp3' = Product(fn, n)
             /\ saved' = SaveProduct(fn)
             /\ pc' = "L23"
             /\ UNCHANGED err
       \/ \E e \in RunErrors :
             /\ RunCalled(e)
             /\ pc' = "L23"
             /\ UNCHANGED <<sp3, saved, err>>
    /\ UNCHANGED <<argv, args, params, x1d, outfile, plots, figure, images>>

\* sp3 = x1d.run(s2dfile): the step returns a product (and has saved it
\* when save_results is set) or raises; nothing catches what it raises.
Run ==
    /\ pc = "L21"
    /\ \/ \E fn \in Filenames, n \in 0..MaxSpec :
             /\ RunCalled(NoExc)
             /\ sp3' = Product(fn, n)
             /\ saved' = SaveProduct(fn)
             /\ pc' = "L23"
             /\ UNCHANGED err
       \/ \E e \in RunErrors :
             /\ RunCalled(e)
             /\ Raise("run", e)
             /\ UNCHANGED <<sp3, saved>>
    /\ UNCHANGED <<argv, args, params, x1d, outfile, plots, figure, images>>

IfPlotAlways ==
    /\ pc = "L23"
    /\ pc' = "L24"
    /\ UNCHANGED <<argv, args, params, x1d, sp3, outfile, calls, runs, plots,
                   figure, images, saved, err>>

IfPlot ==
    /\ pc = "L23"
    /\ pc' = IF params.plot THEN "L24" ELSE "done"
    /\ UNCHANGED <<argv, args, params, x1d, sp3, outfile, calls, runs, plots,
                   figure, images, saved, err>>

\* A call into the plotting library that raises: the error leaves
\* extract_spectrum, and the call has drawn and written nothing.
PlotLibRaises(op) ==
    /\ Called(op, "PlotError")
    /\ Raise(op, "PlotError")
    /\ UNCHANGED <<plots, figure, images>>

Figure ==
    /\ pc = "L24"
    /\ \/ /\ Called("figure", NoExc)
          /\ figure' = [figure EXCEPT !.created = TRUE, !.figsize = <<10, 6>>]
          /\ pc' = "L25"
          /\ UNCHANGED <<plots, images, err>>
       \/ PlotLibRaises("figure")
    /\ UNCHANGED <<argv, args, params, x1d, sp3, outfile, runs, saved>>

PlotLastSpectrum ==
    /\ pc = "L25"
    /\ IF Len(sp3.spec) = 0
       THEN /\ Raise("plot", "IndexError")
            /\ UNCHANGED <<calls, plots, figure, images>>
       ELSE \/ /\ Called("plot", NoExc)
               /\ plots' = Append(plots,
                                  [x |-> sp3.spec[Len(sp3.spec)].WAVELENGTH,
                                   y |-> sp3.spec[Len(sp3.spec)].FLUX])
               /\ pc' = "L26"
               /\ UNCHANGED <<figure, images, err>>
            \/ PlotLibRaises("plot")
    /\ UNCHANGED <<argv, args, params, x1d, sp3, outfile, runs, saved>>

PlotSkipEmpty ==
    /\ pc = "L25"
    /\ IF Len(sp3.spec) = 0
       THEN /\ pc' = "L26"
            /\ UNCHANGED <<calls, plots, figure, images, err>>
       ELSE \/ /\ Called("plot", NoExc)
               /\ plots' = Append(plots, [x |-> sp3.spec[1].WAVELENGTH,
                                          y |-> sp3.spec[1].FLUX])
               /\ pc' = "L26"
               /\ UNCHANGED <<figure, images, err>>
            \/ PlotLibRaises("plot")
    /\ UNCHANGED <<argv, args, params, x1d, sp3, outfile, runs, saved>>

\* plt.plot(sp3.spec[0].spec_table['WAVELENGTH'],
\*          sp3.spec[0].spec_table['FLUX']); spec[0] of an empty list raises
\* IndexError before plt.plot is reached.
Plot ==
    /\ pc = "L25"
    /\ IF Len(sp3.spec) = 0
       THEN /\ Raise("plot", "IndexError")
            /\ UNCHANGED <<calls, plots, figure, images>>
       ELSE \/ /\ Called("plot", NoExc)
               /\ plots' = Append(plots, [x |-> sp3.spec[1].WAVELENGTH,
                                          y |-> sp3.spec[1].FLUX])
               /\ pc' = "L26"
               /\ UNCHANGED <<figure, images, err>>
            \/ PlotLibRaises("plot")
    /\ UNCHANGED <<argv, args, params, x1d, sp3, outfile, runs, saved>>

Title ==
    /\ pc = "L26"
    /\ \/ /\ Called("title", NoExc)
          /\ figure' = [figure EXCEPT !.title = sp3.filename]
          /\ pc' = "L27"
          /\ UNCHANGED <<plots, images, err>>
       \/ PlotLibRaises("title")
    /\ UNCHANGED <<argv, args, params, x1d, sp3, outfile, runs, saved>>

Xlabel ==
    /\ pc = "L27"
    /\ \/ /\ Called("xlabel", NoExc)
          /\ figure' = [figure EXCEPT !.xlabel = "micron"]
          /\ pc' = "L28"
          /\ UNCHANGED <<plots, images, err>>
       \/ PlotLibRaises("xlabel")
    /\ UNCHANGED <<argv, args, params, x1d, sp3, outfile, runs, saved>>

Ylabel ==
    /\ pc = "L28"
    /\ \/ /\ Called("ylabel", NoExc)
          /\ figure' = [figure EXCEPT !.ylabel = "Jy"]
          /\ pc' = "L29"
          /\ UNCHANGED <<plots, images, err>>
       \/ PlotLibRaises("ylabel")
    /\ UNCHANGED <<argv, args, params, x1d, sp3, outfile, runs, saved>>

OutfileUnchanged ==
    /\ pc = "L29"
    /\ outfile' = sp3.filename
    /\ pc' = "L30"
    /\ UNCHANGED <<argv, args, params, x1d, sp3, calls, runs, plots, figure,
                   images, saved, err>>

\* outfile = sp3.meta.filename.replace("_extract1dstep.fits", ".png")
Outfile ==
    /\ pc = "L29"
    /\ outfile' = Replace(sp3.filename, Suffix, Png)
    /\ pc' = "L30"
    /\ UNCHANGED <<argv, args, params, x1d, sp3, calls, runs, plots, figure,
                   images, saved, err>>

\* plt.savefig(outfile): the image file exists once the call has returned.
Savefig ==
    /\ pc = "L30"
    /\ \/ /\ Called("savefig", NoExc)
          /\ images' = Append(images, outfile)
          /\ pc' = "done"
          /\ UNCHANGED <<plots, figure, err>>
       \/ PlotLibRaises("savefig")
    /\ UNCHANGED <<argv, args, params, x1d, sp3, outfile, runs, saved>>

Next ==
    \/ ParseArgs
    \/ CallExtractSpectrum
    \/ NewStep
    \/ SetSaveResults
    \/ SetOutputDir
    \/ SetOverride
    \/ SetUseSourcePosn
    \/ Run
    \/ IfPlot
    \/ Figure
    \/ Plot
    \/ Title
    \/ Xlabel
    \/ Ylabel
    \/ Outfile
    \/ Savefig

Spec == Init /\ [][Next]_vars

\* ------------------------------------------------------ what is observed
CallIndex(op) == {i \in DOMAIN calls : calls[i].op = op}
ConfigOps == {"save_results", "output_dir", "override_extract1d", "use_source_posn"}
PlotOps == {"figure", "plot", "title", "xlabel", "ylabel", "savefig"}
AfterRun == {"L23", "L24", "L25", "L26", "L27", "L28", "L29", "L30", "done"}

\* A command-line string names an option when what stands before its '='
\* (the whole string when there is none) is the option's name or an
\* abbreviation of it that no other option shares.
NamesOption(tok, opt, shortest) ==
    LET head == IF HasChar(tok, "=") THEN SplitHead(tok, "=") ELSE tok
    IN  Len(head) >= shortest /\ StartsWith(opt, head)

NamesS2dfile(tok) == NamesOption(tok, OptS2dfile, 4)
NamesParfile(tok) == NamesOption(tok, OptParfile, 3)
NamesSavePlot(tok) == NamesOption(tok, OptSavePlot, 4)
NamesHelp(tok) == NamesOption(tok, OptHelp, 3) \/ StartsWith(tok, OptH)

S2dfileGiven == \E i \in DOMAIN argv : NamesS2dfile(argv[i])
ParfileGiven == \E i \in DOMAIN argv : NamesParfile(argv[i])
SavePlotGiven == \E i \in DOMAIN argv : NamesSavePlot(argv[i])
HelpGiven == \E i \in DOMAIN argv : NamesHelp(argv[i])

\* The value the last string that names the option carries: what follows
\* its '=', or the next string.
GivenAt(av, i) ==
    IF HasChar(av[i], "=") THEN SplitTail(av[i], "=")
    ELSE IF i + 1 \in DOMAIN av THEN av[i + 1] ELSE None

\* What argparse hands over for a given string: the string itself, except
\* that '--' comes out as the empty list.
ValueAt(av, i) ==
    IF GivenAt(av, i) = <<"-","-">> THEN <<"[]">> ELSE GivenAt(av, i)

LastS2dfile ==
    LET last == CHOOSE i \in DOMAIN argv :
                    /\ NamesS2dfile(argv[i])
                    /\ \A j \in DOMAIN argv : NamesS2dfile(argv[j]) => j <= i
    IN  ValueAt(argv, last)

LastParfile ==
    LET last == CHOOSE i \in DOMAIN argv :
                    /\ NamesParfile(argv[i])
                    /\ \A j \in DOMAIN argv : NamesParfile(argv[j]) => j <= i
    IN  ValueAt(argv, last)

SavedProduct == <<[dir |-> OutputDir, filename |-> sp3.filename]>>

\* C1: in every call the step is created and its four attributes are
\* assigned before run, run happens at most once (exactly once when the call
\* gets past it) with s2dfile as its input, and every plotting call and
\* every image file comes after a run that returned a result.
C1_ConfigureRunPlot ==
    /\ Cardinality(CallIndex("run")) <= 1
    /\ Len(runs) = Cardinality(CallIndex("run"))
    /\ \A i \in CallIndex("run") :
          /\ \A f \in {"Extract1dStep"} \cup ConfigOps :
                \E j \in 1..(i - 1) : calls[j].op = f
          /\ runs[1].input = params.s2dfile
    /\ \A i \in DOMAIN calls :
          calls[i].op \in PlotOps =>
             \E j \in 1..(i - 1) : calls[j].op = "run" /\ calls[j].raised = NoExc
    /\ (images # <<>> \/ plots # <<>>) => sp3.returned
    /\ pc \in AfterRun => Cardinality(CallIndex("run")) = 1

C1_Witness ==
    /\ pc = "done"
    /\ params.plot
    /\ Len(images) = 1
    /\ Cardinality(CallIndex("run")) = 1

\* C2: with plot false no plotting call is made and no image file is
\* written; the extraction is still run, and the call ends with the step's
\* saved product as the only file.
C2_NoPlotWhenFalse ==
    (calls # <<>> /\ ~params.plot) =>
       /\ \A i \in DOMAIN calls : calls[i].op \notin PlotOps
       /\ plots = <<>>
       /\ figure = NoFigure
       /\ images = <<>>
       /\ pc = "done" =>
             /\ Len(runs) = 1
             /\ sp3.returned
             /\ saved = SavedProduct

C2_Witness ==
    /\ pc = "done"
    /\ ~params.plot
    /\ Len(runs) = 1
    /\ Len(saved) = 1

\* C3: a call with plot true that returns has written exactly one image
\* file and has plotted once, the WAVELENGTH column against the FLUX column
\* of spec[0] of the result; nothing else is ever plotted.
C3_PlotsFirstSpectrum ==
    /\ Len(images) <= 1
    /\ Len(plots) <= 1
    /\ \A i \in DOMAIN plots :
          /\ Len(sp3.spec) >= 1
          /\ plots[i].x = sp3.spec[1].WAVELENGTH
          /\ plots[i].y = sp3.spec[1].FLUX
          /\ plots[i] = [x |-> <<0, "WAVELENGTH">>, y |-> <<0, "FLUX">>]
    /\ (pc = "done" /\ params.plot) =>
          /\ Len(sp3.spec) >= 1
          /\ Len(plots) = 1
          /\ Len(images) = 1
          /\ Cardinality(CallIndex("savefig")) = 1

C3_Witness ==
    /\ pc = "done"
    /\ params.plot
    /\ Len(sp3.spec) >= 2
    /\ Len(images) = 1
    /\ Len(plots) = 1

\* C4: when run raises, that same error leaves extract_spectrum: run is not
\* called again, no result is substituted, and nothing is plotted or
\* written, whatever the plot flag.
C4_RunErrorPropagates ==
    \A i \in CallIndex("run") :
       calls[i].raised # NoExc =>
          /\ pc = "raised"
          /\ err = [stage |-> "run", exc |-> calls[i].raised]
          /\ i = Len(calls)
          /\ Len(runs) = 1
          /\ sp3 = NoResult
          /\ plots = <<>>
          /\ figure = NoFigure
          /\ images = <<>>

C4_Witness ==
    /\ pc = "raised"
    /\ params.plot
    /\ \E i \in CallIndex("run") : calls[i].raised = "Extract1dError"

\* C5: for either value of plot, run is entered with save_results true and
\* output_dir './', and a call that returns has the product saved under
\* './'.
C5_ProductSaved ==
    /\ \A r \in DOMAIN runs :
          /\ runs[r].config.save_results = PyTrue
          /\ runs[r].config.output_dir = <<".","/">>
    /\ pc \in AfterRun => saved = SavedProduct

C5_Witness ==
    /\ pc = "done"
    /\ params.plot
    /\ Len(images) = 1
    /\ saved = SavedProduct

\* C6: at run, override_extract1d is the parfile argument, which is the
\* value given to --parfile or 'miri_lrs_demo_extract1d.json' when the
\* option is absent, and use_source_posn is false.
C6_CallerParfile ==
    \A r \in DOMAIN runs :
       /\ runs[r].config.override_extract1d = params.parfile
       /\ runs[r].config.use_source_posn = PyFalse
       /\ runs[r].config.override_extract1d =
             IF ParfileGiven THEN LastParfile ELSE DefaultParfile

C6_Witness ==
    /\ Len(runs) = 1
    /\ ~ParfileGiven
    /\ runs[1].config.override_extract1d = DefaultParfile

NothingStarted ==
    /\ calls = <<>>
    /\ params = NoParams
    /\ x1d = NoStep
    /\ runs = <<>>

CalledOnceWithParsedValues ==
    /\ Cardinality(CallIndex("extract_spectrum")) <= 1
    /\ pc \notin {"parse_args", "call"} /\ err.stage # "parse_args" =>
          Cardinality(CallIndex("extract_spectrum")) = 1
    /\ calls # <<>> =>
          /\ calls[1].op = "extract_spectrum"
          /\ params = [s2dfile |-> args.s2dfile, parfile |-> args.parfile,
                       plot |-> args.save_plot]
          /\ params.s2dfile = LastS2dfile
          /\ params.parfile = IF ParfileGiven THEN LastParfile ELSE DefaultParfile
          /\ params.plot = SavePlotGiven

\* C7 as stated: a command line without --s2dfile ends in the argument
\* error (exit status 2) with nothing configured or run; otherwise
\* extract_spectrum is called exactly once with the values given on the
\* command line, plot being true exactly when --save_plot is present.
C7_Original ==
    /\ ~S2dfileGiven =>
          /\ pc \in {"parse_args", "raised"}
          /\ pc = "raised" => err = [stage |-> "parse_args", exc |-> "SystemExit(2)"]
          /\ NothingStarted
    /\ CalledOnceWithParsedValues

\* C7 as amended: a command line without --s2dfile ends, with nothing
\* configured or run, in the argument error, or in the help exit (status 0)
\* when -h/--help is given; the rest as stated.
C7_CommandLine ==
    /\ ~S2dfileGiven =>
          /\ pc \in {"parse_args", "raised"}
          /\ pc = "raised" =>
                /\ err.stage = "parse_args"
                /\ \/ err.exc = "SystemExit(2)"
                   \/ err.exc = "SystemExit(0)" /\ HelpGiven
          /\ NothingStarted
    /\ CalledOnceWithParsedValues

C7_Witness ==
    /\ pc = "raised"
    /\ err = [stage |-> "parse_args", exc |-> "SystemExit(2)"]
    /\ argv # <<>>
    /\ ~S2dfileGiven
    /\ ~HelpGiven

OutfileComputed == pc = "L30" \/ CallIndex("savefig") # {}

Contains(s, t) == \E i \in 1..Len(s) : StartsWithAt(s, i, t)

SuffixReplaced(s) ==
    IF EndsWith(s, Suffix)
    THEN SubSeq(s, 1, Len(s) - Len(Suffix)) \o Png
    ELSE s

C9_ImagePathDiffers ==
    /\ OutfileComputed => outfile # sp3.filename
    /\ \A i \in DOMAIN images, j \in DOMAIN saved :
          images[i] # saved[j].filename

C9_Witness ==
    /\ pc = "done"
    /\ Len(images) = 1
    /\ saved = SavedProduct
    /\ sp3.filename = <<"b",".","p","n","g">> \o Suffix
    /\ images[1] = <<"b",".","p","n","g",".","p","n","g">>

PlotStageFailed ==
    \/ \E i \in DOMAIN calls : calls[i].op \in PlotOps /\ calls[i].raised # NoExc
    \/ /\ params.plot
       /\ sp3.returned
       /\ Len(sp3.spec) = 0
       /\ pc \notin {"L23", "L24", "L25"}

\* C10: when plot is true, the extraction succeeded and the plotting stage
\* fails (the result has no first spectrum, or a plotting call raises), the
\* error leaves extract_spectrum, no image file is written and the product
\* the run saved is still there.
C10_PlotFailure ==
    /\ PlotStageFailed =>
          /\ pc = "raised"
          /\ err.stage \in PlotOps
          /\ err.exc \in {"IndexError", "PlotError"}
          /\ images = <<>>
          /\ sp3.returned
          /\ saved = SavedProduct
    /\ \A i \in DOMAIN calls :
          (calls[i].op \in PlotOps /\ calls[i].raised # NoExc) =>
             /\ i = Len(calls)
             /\ err = [stage |-> calls[i].op, exc |-> calls[i].raised]

C10_Witness ==
    /\ pc = "raised"
    /\ params.plot
    /\ err = [stage |-> "plot", exc |-> "IndexError"]
    /\ Len(sp3.spec) = 0
    /\ saved = SavedProduct

====
